---- MODULE Spec2Model ----
(***************************************************************************)
(* A model of async-synchro's two locks: Mutex (src/src/mutex.ts, lines    *)
(* 48-295) and Semaphore (src/src/errors.ts, lines 74-345).                *)
(*                                                                         *)
(* JavaScript runs every method call to completion, so each public call    *)
(* (lock, guard, cancelAll, acquire, an invocation of a releaser) and each *)
(* promise continuation (the resumption of an await inside guard) is one   *)
(* atomic action.  The private helpers are operators from object state to  *)
(* object state, composed in the order the code calls them.                *)
(***************************************************************************)
EXTENDS Integers, Sequences, FiniteSets

\* ------------------------------------------------------------------ bounds

\* Number of lock()/guard() calls made on the Mutex in one run.
MaxReq == 3
\* Number of times one release token is invoked by its holder.
MaxCalls == 2
\* Number of cancelAll() calls in one run.
MaxCancel == 2

Req == 1..MaxReq

\* ------------------------------------------------------------- error values

\* The default singleton of errors.ts, the errorCancelled option, and an
\* argument given to cancelAll(err).  NoErr stands for undefined.
NoErr == "undefined"
ErrCancelled == "ErrCancelled"
ErrOption == "options.errorCancelled"
ErrArgument == "err"

\* Coalesce that prefers its right operand.
Coalesce_RightFirst(a, b) == IF b # NoErr THEN b ELSE a

\* a ?? b
Coalesce(a, b) == IF a # NoErr THEN a ELSE b

\* ------------------------------------------------------------------ Mutex

VARIABLES
  mtx,      \* the Mutex object, the promises it handed out and its tokens
  mKind,    \* per request: "none" (not made yet), "lock" or "guard"
  mGuard,   \* per request: where its guard() call stands
  mCalls,   \* per request: how often its release token has been invoked
  mCancels, \* number of cancelAll() calls made so far
  mErr,     \* the err argument of the latest cancelAll(err) call
  mCb,      \* per request: how the callback given to guard() ended
  mStale,   \* per request: a cancelAll() was called after its grant
  sem,      \* the Semaphore object, the promises it handed out, its tickets
  sKind,    \* per request: "none" (not made yet), "acquire" or "guard"
  sGuard,   \* per request: where its guard() call stands
  sCancels  \* number of cancelAll() calls made so far

mvars == <<mtx, mKind, mGuard, mCalls, mCancels, mErr, mCb, mStale>>
svars == <<sem, sKind, sGuard, sCancels>>

\* constructor: unlocked, empty queue, a copy of the options.  The hooks
\* onLock/onRelease/onCancel are counted; errorCancelled is the option;
\* onCancelSaw lists what each onCancel call found (isLocked, queue length).
Mutex_new(errorCancelled) ==
  [ locked    |-> FALSE,
    queue     |-> << >>,
    errorCancelled |-> errorCancelled,
    promise   |-> [r \in Req |-> "none"],
    reason    |-> [r \in Req |-> NoErr],
    released  |-> [r \in Req |-> FALSE],
    grants    |-> << >>,
    onLock    |-> 0,
    onRelease |-> 0,
    onCancel  |-> 0,
    onCancelSaw |-> << >> ]

\* get isLocked
Mutex_isLocked(m) == m.locked

\* Mutex_enque that pushes without locking.
Mutex_enque_NoLock(m, r) ==
  [m EXCEPT !.queue = Append(@, r)]

\* Mutex_enque with unshift in place of push.
Mutex_enque_Unshift(m, r) ==
  [m EXCEPT !.locked = TRUE, !.queue = <<r>> \o @]

\* Mutex_enque that replaces the queue by the new request.
Mutex_enque_Replace(m, r) ==
  [m EXCEPT !.locked = TRUE, !.queue = <<r>>]

\* #enque: locks, then pushes the promise's resolve/reject pair.
Mutex_enque(m, r) ==
  [m EXCEPT !.locked = TRUE, !.queue = Append(@, r)]

\* #makeReleaser: a fresh closure whose `released` flag is false.
Mutex_makeReleaser(m, r) ==
  [m EXCEPT !.released[r] = FALSE]

\* Mutex_deque that resolves the head but leaves it in the queue.
Mutex_deque_NoShift(m) ==
  IF m.queue = << >> THEN m
  ELSE LET next == Head(m.queue)
           m1 == [m EXCEPT !.onLock = @ + 1]
           m2 == Mutex_makeReleaser(m1, next)
       IN [m2 EXCEPT !.promise[next] = "resolved",
                     !.grants = Append(@, next)]

\* Mutex_deque that shifts the head off the queue and never resolves it.
Mutex_deque_DropHead(m) ==
  IF m.queue = << >> THEN m
  ELSE [m EXCEPT !.queue = Tail(@), !.onLock = @ + 1]

\* #deque: shifts the head off the queue, fires onLock and resolves the
\* head's promise with a new releaser; nothing when the queue is empty.
Mutex_deque(m) ==
  IF m.queue = << >> THEN m
  ELSE LET next == Head(m.queue)
           m1 == [m EXCEPT !.queue = Tail(@), !.onLock = @ + 1]
           m2 == Mutex_makeReleaser(m1, next)
       IN [m2 EXCEPT !.promise[next] = "resolved",
                     !.grants = Append(@, next)]

\* Mutex_lock that dispatches whether or not the Mutex was locked.
Mutex_lock_AlwaysDeque(m, r) ==
  LET m1 == Mutex_enque([m EXCEPT !.promise[r] = "pending"], r)
  IN Mutex_deque([m1 EXCEPT !.onLock = @ + 1])

\* Mutex_lock that fires onLock also for a request that only queues.
Mutex_lock_HookAlways(m, r) ==
  LET wasLocked == Mutex_isLocked(m)
      m1 == Mutex_enque([m EXCEPT !.promise[r] = "pending"], r)
      m2 == [m1 EXCEPT !.onLock = @ + 1]
  IN IF ~wasLocked THEN Mutex_deque(m2) ELSE m2

\* lock(): the promise executor runs #enque at once; when the Mutex was not
\* locked before, onLock fires and #deque runs.
Mutex_lock(m, r) ==
  LET wasLocked == Mutex_isLocked(m)
      m1 == Mutex_enque([m EXCEPT !.promise[r] = "pending"], r)
  IN IF ~wasLocked
       THEN Mutex_deque([m1 EXCEPT !.onLock = @ + 1])
       ELSE m1

\* Mutex_releaser without the `released` short-circuit.
Mutex_releaser_NoFlag(m, r) ==
  LET m1 == [m EXCEPT !.released[r] = TRUE, !.onRelease = @ + 1]
  IN IF Len(m1.queue) > 0
       THEN Mutex_deque(m1)
       ELSE [m1 EXCEPT !.locked = FALSE]

\* Mutex_releaser that unlocks even when it hands the lock to a waiter.
Mutex_releaser_AlwaysUnlock(m, r) ==
  IF m.released[r] THEN m
  ELSE LET m1 == [m EXCEPT !.released[r] = TRUE, !.onRelease = @ + 1]
       IN IF Len(m1.queue) > 0
            THEN [Mutex_deque(m1) EXCEPT !.locked = FALSE]
            ELSE [m1 EXCEPT !.locked = FALSE]

\* Mutex_releaser that fires onRelease before it looks at `released`.
Mutex_releaser_HookBeforeFlag(m, r) ==
  IF m.released[r] THEN [m EXCEPT !.onRelease = @ + 1]
  ELSE LET m1 == [m EXCEPT !.released[r] = TRUE, !.onRelease = @ + 1]
       IN IF Len(m1.queue) > 0
            THEN Mutex_deque(m1)
            ELSE [m1 EXCEPT !.locked = FALSE]

\* Mutex_releaser that unlocks and leaves the waiters where they are.
Mutex_releaser_NoHandoff(m, r) ==
  IF m.released[r] THEN m
  ELSE [m EXCEPT !.released[r] = TRUE, !.onRelease = @ + 1, !.locked = FALSE]

\* The closure #makeReleaser returns, invoked.
Mutex_releaser(m, r) ==
  IF m.released[r] THEN m
  ELSE LET m1 == [m EXCEPT !.released[r] = TRUE, !.onRelease = @ + 1]
       IN IF Len(m1.queue) > 0
            THEN Mutex_deque(m1)
            ELSE [m1 EXCEPT !.locked = FALSE]

\* options.onCancel(), called on the Mutex in state m.
Mutex_onCancel(m) ==
  [m EXCEPT !.onCancel = @ + 1,
            !.onCancelSaw = Append(@, [isLocked |-> Mutex_isLocked(m),
                                       queued |-> Len(m.queue)])]

\* Mutex_cancelAll_reset that flips #locked where the code clears it.
Mutex_cancelAll_reset_Toggle(m, err) ==
  LET e == Coalesce(err, Coalesce(m.errorCancelled, ErrCancelled))
      inQueue == {m.queue[i] : i \in 1..Len(m.queue)}
  IN [m EXCEPT
        !.promise = [r \in Req |-> IF r \in inQueue /\ @[r] = "pending"
                                    THEN "rejected" ELSE @[r]],
        !.reason  = [r \in Req |-> IF r \in inQueue /\ m.promise[r] = "pending"
                                    THEN e ELSE @[r]],
        !.queue = << >>,
        !.locked = ~m.locked]

\* The first three statements of cancelAll(err): rejects every queued
\* promise with err ?? options.errorCancelled ?? ErrCancelled, empties the
\* queue and unlocks.
Mutex_cancelAll_reset(m, err) ==
  LET e == Coalesce(err, Coalesce(m.errorCancelled, ErrCancelled))
      inQueue == {m.queue[i] : i \in 1..Len(m.queue)}
  IN [m EXCEPT
        !.promise = [r \in Req |-> IF r \in inQueue /\ @[r] = "pending"
                                    THEN "rejected" ELSE @[r]],
        !.reason  = [r \in Req |-> IF r \in inQueue /\ m.promise[r] = "pending"
                                    THEN e ELSE @[r]],
        !.queue = << >>,
        !.locked = FALSE]

\* Mutex_cancelAll that leaves #locked as it was.
Mutex_cancelAll_KeepLocked(m, err) ==
  Mutex_onCancel([Mutex_cancelAll_reset(m, err) EXCEPT !.locked = m.locked])

\* Mutex_cancelAll that fires onCancel first and resets afterwards.
Mutex_cancelAll_HookFirst(m, err) ==
  Mutex_cancelAll_reset(Mutex_onCancel(m), err)

\* cancelAll(err): rejects the queued promises, empties the queue, unlocks,
\* and then fires onCancel.
Mutex_cancelAll(m, err) ==
  Mutex_onCancel(Mutex_cancelAll_reset(m, err))

\* Requests are numbered in the order of their lock()/guard() calls.
MutexNextReq == Cardinality({r \in Req : mKind[r] # "none"}) + 1

\* new Mutex(options), with and without the errorCancelled option.
MutexInit ==
  /\ \E e \in {NoErr, ErrOption} : mtx = Mutex_new(e)
  /\ mKind = [r \in Req |-> "none"]
  /\ mGuard = [r \in Req |-> "none"]
  /\ mCalls = [r \in Req |-> 0]
  /\ mCancels = 0
  /\ mErr = NoErr
  /\ mCb = [r \in Req |-> "none"]
  /\ mStale = [r \in Req |-> FALSE]

\* A caller calls lock().
MutexLock ==
  /\ MutexNextReq \in Req
  /\ mtx' = Mutex_lock(mtx, MutexNextReq)
  /\ mKind' = [mKind EXCEPT ![MutexNextReq] = "lock"]
  /\ UNCHANGED <<mGuard, mCalls, mCancels, mErr, mCb, mStale>>
  /\ UNCHANGED svars

\* The holder of a token obtained from lock() invokes it (again).
MutexRelease(r) ==
  /\ mKind[r] = "lock"
  /\ mtx.promise[r] = "resolved"
  /\ mCalls[r] < MaxCalls
  /\ mtx' = Mutex_releaser(mtx, r)
  /\ mCalls' = [mCalls EXCEPT ![r] = @ + 1]
  /\ UNCHANGED <<mKind, mGuard, mCancels, mErr, mCb, mStale>>
  /\ UNCHANGED svars

\* A caller calls cancelAll(), with or without an error argument.
MutexCancelAll ==
  /\ mCancels < MaxCancel
  /\ \E err \in {NoErr, ErrArgument} :
       /\ mtx' = Mutex_cancelAll(mtx, err)
       /\ mErr' = err
  /\ mCancels' = mCancels + 1
  /\ mStale' = [r \in Req |-> mStale[r] \/ mtx.promise[r] = "resolved"]
  /\ UNCHANGED <<mKind, mGuard, mCalls, mCb>>
  /\ UNCHANGED svars

\* guard(cb), up to its first await: lock() is called synchronously.
MutexGuard ==
  /\ MutexNextReq \in Req
  /\ mtx' = Mutex_lock(mtx, MutexNextReq)
  /\ mKind' = [mKind EXCEPT ![MutexNextReq] = "guard"]
  /\ mGuard' = [mGuard EXCEPT ![MutexNextReq] = "awaitLock"]
  /\ UNCHANGED <<mCalls, mCancels, mErr, mCb, mStale>>
  /\ UNCHANGED svars

\* MutexGuardCallback without the finally block on a cb that throws at once.
MutexGuardCallback_NoFinally(r) ==
  /\ mGuard[r] = "awaitLock"
  /\ mtx.promise[r] = "resolved"
  /\ \E outcome \in {"returns", "throws", "rejects"} :
       /\ mCb' = [mCb EXCEPT ![r] = outcome]
       /\ mGuard' = [mGuard EXCEPT ![r] =
                       CASE outcome = "returns" -> "awaitCb:value"
                         [] outcome = "rejects" -> "awaitCb:error"
                         [] outcome = "throws"  -> "rejected:callback"]
  /\ UNCHANGED <<mtx, mCalls, mKind, mCancels, mErr, mStale>>
  /\ UNCHANGED svars

\* MutexGuardCallback that invokes the token before cb has settled.
MutexGuardCallback_ReleaseFirst(r) ==
  /\ mGuard[r] = "awaitLock"
  /\ mtx.promise[r] = "resolved"
  /\ \E outcome \in {"returns", "throws", "rejects"} :
       /\ mCb' = [mCb EXCEPT ![r] = outcome]
       /\ mGuard' = [mGuard EXCEPT ![r] =
                       CASE outcome = "returns" -> "awaitCb:value"
                         [] outcome = "rejects" -> "awaitCb:error"
                         [] outcome = "throws"  -> "rejected:callback"]
  /\ mtx' = Mutex_releaser(mtx, r)
  /\ mCalls' = [mCalls EXCEPT ![r] = @ + 1]
  /\ UNCHANGED <<mKind, mCancels, mErr, mStale>>
  /\ UNCHANGED svars

\* guard resumes with the token: cb() is called.  A cb that throws at once
\* goes straight to the finally block (release, then guard rejects); one that
\* returns a value or a promise is awaited.
MutexGuardCallback(r) ==
  /\ mGuard[r] = "awaitLock"
  /\ mtx.promise[r] = "resolved"
  /\ \E outcome \in {"returns", "throws", "rejects"} :
       /\ mCb' = [mCb EXCEPT ![r] = outcome]
       /\ IF outcome = "throws"
            THEN /\ mtx' = Mutex_releaser(mtx, r)
                 /\ mCalls' = [mCalls EXCEPT ![r] = @ + 1]
                 /\ mGuard' = [mGuard EXCEPT ![r] = "rejected:callback"]
            ELSE /\ mGuard' = [mGuard EXCEPT ![r] =
                                 IF outcome = "returns" THEN "awaitCb:value"
                                                        ELSE "awaitCb:error"]
                 /\ UNCHANGED <<mtx, mCalls>>
  /\ UNCHANGED <<mKind, mCancels, mErr, mStale>>
  /\ UNCHANGED svars

\* MutexGuardFinally that returns or rethrows without releasing.
MutexGuardFinally_NoRelease(r) ==
  /\ mGuard[r] \in {"awaitCb:value", "awaitCb:error"}
  /\ mCalls' = [mCalls EXCEPT ![r] = @ + 1]
  /\ mGuard' = [mGuard EXCEPT ![r] =
                  IF mGuard[r] = "awaitCb:value" THEN "resolved"
                                                 ELSE "rejected:callback"]
  /\ UNCHANGED <<mtx, mKind, mCancels, mErr, mCb, mStale>>
  /\ UNCHANGED svars

\* guard resumes after `await cb()`: the finally block releases, then guard
\* returns the value or rethrows the callback's error.
MutexGuardFinally(r) ==
  /\ mGuard[r] \in {"awaitCb:value", "awaitCb:error"}
  /\ mtx' = Mutex_releaser(mtx, r)
  /\ mCalls' = [mCalls EXCEPT ![r] = @ + 1]
  /\ mGuard' = [mGuard EXCEPT ![r] =
                  IF mGuard[r] = "awaitCb:value" THEN "resolved"
                                                 ELSE "rejected:callback"]
  /\ UNCHANGED <<mKind, mCancels, mErr, mCb, mStale>>
  /\ UNCHANGED svars

\* MutexGuardCancelled that swallows the rejection and runs cb all the same.
MutexGuardCancelled_RunsCallback(r) ==
  /\ mGuard[r] = "awaitLock"
  /\ mtx.promise[r] = "rejected"
  /\ mGuard' = [mGuard EXCEPT ![r] = "awaitCb:value"]
  /\ mCb' = [mCb EXCEPT ![r] = "returns"]
  /\ UNCHANGED <<mtx, mKind, mCalls, mCancels, mErr, mStale>>
  /\ UNCHANGED svars

\* guard resumes with the rejection of lock(): the await throws outside the
\* try block, so cb is not called and nothing is released.
MutexGuardCancelled(r) ==
  /\ mGuard[r] = "awaitLock"
  /\ mtx.promise[r] = "rejected"
  /\ mGuard' = [mGuard EXCEPT ![r] = "rejected:cancelled"]
  /\ UNCHANGED <<mtx, mKind, mCalls, mCancels, mErr, mCb, mStale>>
  /\ UNCHANGED svars

MutexNext ==
  \/ MutexLock
  \/ MutexGuard
  \/ MutexCancelAll
  \/ \E r \in Req : MutexRelease(r)
  \/ \E r \in Req : MutexGuardCallback(r)
  \/ \E r \in Req : MutexGuardFinally(r)
  \/ \E r \in Req : MutexGuardCancelled(r)

\* -------------------------------------------------------------- Semaphore

\* Number of acquire()/guard() calls made on the Semaphore in one run.
MaxSemReq == 4
\* Largest maxConcurrent argument tried, in halves (4 halves = 2).
MaxArgHalves == 4

SReq == 1..MaxSemReq

\* What a failed read of a private field throws.
TypeError == "TypeError"

\* The constructor's first argument: left out, a string, or a number.  A
\* number is kept in halves so that fractions (0.5, 1.5) are among the inputs.
SemArgs ==
  {[type |-> "undefined", halves |-> 0], [type |-> "string", halves |-> 0]}
    \cup {[type |-> "number", halves |-> h] : h \in (-2)..MaxArgHalves}

\* JavaScript's truthiness of the argument: undefined and 0 are falsy, a
\* non-empty string and every other number are truthy.
Truthy(arg) ==
  \/ arg.type = "string"
  \/ arg.type = "number" /\ arg.halves # 0

\* Math.trunc of a number kept in halves: towards zero.
Trunc(halves) ==
  IF halves >= 0 THEN halves \div 2 ELSE -((-halves) \div 2)

\* The constructor's argument checks: does it throw?
Semaphore_constructorThrows(arg) ==
  /\ Truthy(arg)
  /\ \/ arg.type # "number"
     \/ arg.halves <= 0

\* The #maxConcurrent the constructor sets.
Semaphore_constructorMax(arg) ==
  IF Truthy(arg) THEN Trunc(arg.halves) ELSE 1

\* constructor: {...DefaultOptions, ...options}, then #allowed = #maxConcurrent.
\* optErr is options.errorCancelled, NoErr when the options leave it out.
Semaphore_new(arg, optErr) ==
  [ constructed |-> ~Semaphore_constructorThrows(arg),
    arg       |-> arg,
    maxConcurrent |-> Semaphore_constructorMax(arg),
    allowed   |-> Semaphore_constructorMax(arg),
    queue     |-> << >>,
    errorCancelled |-> Coalesce(optErr, ErrCancelled),
    promise   |-> [r \in SReq |-> "none"],
    reason    |-> [r \in SReq |-> NoErr],
    released  |-> [r \in SReq |-> FALSE],
    ticket    |-> [r \in SReq |-> 0],
    grants    |-> << >>,
    onAquire  |-> 0,
    onRelease |-> 0,
    onCancel  |-> 0 ]

\* get isLocked
Semaphore_isLocked(s) == s.allowed <= 0

\* The receiver a Promise constructor gives its executor.  acquire() passes
\* the method this.#enque itself, not a closure over this, so inside #enque
\* `this` is undefined.
ExecutorThis == "undefined"

\* #enque, called with `self` as its this: the push needs this.#queue, and
\* reading a private field of undefined throws before anything is pushed.
Semaphore_enqueThrows(self) == self # "this"

Semaphore_enque(s, self, r) ==
  IF Semaphore_enqueThrows(self) THEN s
  ELSE [s EXCEPT !.queue = Append(@, r)]

\* new Promise(this.#enque): the executor runs at once; a throw inside it
\* rejects the new promise with what was thrown.
Semaphore_newPromise(s, r) ==
  LET s1 == Semaphore_enque(s, ExecutorThis, r)
  IN IF Semaphore_enqueThrows(ExecutorThis)
       THEN [s1 EXCEPT !.promise[r] = "rejected", !.reason[r] = TypeError]
       ELSE [s1 EXCEPT !.promise[r] = "pending"]

\* #dispatch: shifts the head off the queue, builds its releaser and its
\* ticket [releaser, #maxConcurrent - #allowed] and resolves its promise;
\* nothing when the queue is empty.
Semaphore_dispatch(s) ==
  IF s.queue = << >> THEN s
  ELSE LET next == Head(s.queue)
       IN [s EXCEPT !.queue = Tail(@),
                    !.released[next] = FALSE,
                    !.ticket[next] = s.maxConcurrent - s.allowed,
                    !.promise[next] = "resolved",
                    !.grants = Append(@, next)]

\* The releaser #dispatch builds, invoked.
Semaphore_releaser(s, r) ==
  IF s.released[r] THEN s
  ELSE Semaphore_dispatch([s EXCEPT !.released[r] = TRUE,
                                    !.allowed = @ + 1,
                                    !.onRelease = @ + 1])

\* Semaphore_acquire that also takes a slot off #allowed on every call.
Semaphore_acquire_Decrement(s, r) ==
  LET wasLocked == Semaphore_isLocked(s)
      s1 == Semaphore_newPromise(s, r)
      s2 == IF ~wasLocked THEN Semaphore_dispatch(s1) ELSE s1
  IN [s2 EXCEPT !.onAquire = @ + 1, !.allowed = @ - 1]

\* Semaphore_acquire that fires onAquire only when the call ended in a grant.
Semaphore_acquire_HookOnGrant(s, r) ==
  LET wasLocked == Semaphore_isLocked(s)
      s1 == Semaphore_newPromise(s, r)
      s2 == IF ~wasLocked THEN Semaphore_dispatch(s1) ELSE s1
  IN IF s2.promise[r] = "resolved" THEN [s2 EXCEPT !.onAquire = @ + 1] ELSE s2

\* acquire(): reads isLocked, builds the promise, dispatches when the
\* Semaphore was not locked, fires onAquire.
Semaphore_acquire(s, r) ==
  LET wasLocked == Semaphore_isLocked(s)
      s1 == Semaphore_newPromise(s, r)
      s2 == IF ~wasLocked THEN Semaphore_dispatch(s1) ELSE s1
  IN [s2 EXCEPT !.onAquire = @ + 1]

\* cancelAll(): rejects every queued promise with
\* options.errorCancelled ?? ErrCancelled, empties the queue and sets
\* #allowed back to #maxConcurrent.
Semaphore_cancelAll(s) ==
  LET e == Coalesce(s.errorCancelled, ErrCancelled)
      inQueue == {s.queue[i] : i \in 1..Len(s.queue)}
  IN [s EXCEPT
        !.promise = [r \in SReq |-> IF r \in inQueue /\ @[r] = "pending"
                                     THEN "rejected" ELSE @[r]],
        !.reason  = [r \in SReq |-> IF r \in inQueue /\ s.promise[r] = "pending"
                                     THEN e ELSE @[r]],
        !.queue = << >>,
        !.allowed = s.maxConcurrent]

SemNextReq == Cardinality({r \in SReq : sKind[r] # "none"}) + 1

\* new Semaphore(arg, options), for every argument and both kinds of options.
SemaphoreInit ==
  /\ \E arg \in SemArgs, e \in {NoErr, ErrOption} : sem = Semaphore_new(arg, e)
  /\ sKind = [r \in SReq |-> "none"]
  /\ sGuard = [r \in SReq |-> "none"]
  /\ sCancels = 0

\* new Semaphore(), the state the Mutex's runs leave the Semaphore in.
SemaphoreInitDefault ==
  /\ sem = Semaphore_new([type |-> "undefined", halves |-> 0], NoErr)
  /\ sKind = [r \in SReq |-> "none"]
  /\ sGuard = [r \in SReq |-> "none"]
  /\ sCancels = 0

\* A caller calls acquire().
SemAcquire ==
  /\ sem.constructed
  /\ SemNextReq \in SReq
  /\ sem' = Semaphore_acquire(sem, SemNextReq)
  /\ sKind' = [sKind EXCEPT ![SemNextReq] = "acquire"]
  /\ UNCHANGED <<sGuard, sCancels>>
  /\ UNCHANGED mvars

\* A caller calls cancelAll().
SemCancelAll ==
  /\ sem.constructed
  /\ sCancels < MaxCancel
  /\ sem' = Semaphore_cancelAll(sem)
  /\ sCancels' = sCancels + 1
  /\ UNCHANGED <<sKind, sGuard>>
  /\ UNCHANGED mvars

\* guard(cb), up to its first await: acquire() is called synchronously.
SemGuard ==
  /\ sem.constructed
  /\ SemNextReq \in SReq
  /\ sem' = Semaphore_acquire(sem, SemNextReq)
  /\ sKind' = [sKind EXCEPT ![SemNextReq] = "guard"]
  /\ sGuard' = [sGuard EXCEPT ![SemNextReq] = "awaitAcquire"]
  /\ UNCHANGED sCancels
  /\ UNCHANGED mvars

\* guard resumes with the rejection of acquire(): the await throws outside
\* the try block, so cb is not called and nothing is released.
SemGuardRejected(r) ==
  /\ sGuard[r] = "awaitAcquire"
  /\ sem.promise[r] = "rejected"
  /\ sGuard' = [sGuard EXCEPT ![r] = "rejected:" \o sem.reason[r]]
  /\ UNCHANGED <<sem, sKind, sCancels>>
  /\ UNCHANGED mvars

\* The holder of a ticket invokes its releaser.  No run of the code reaches
\* a state that enables this step: every promise acquire() builds is rejected
\* by its executor, so no ticket is ever resolved.
SemRelease(r) ==
  /\ sKind[r] = "acquire"
  /\ sem.promise[r] = "resolved"
  /\ sem' = Semaphore_releaser(sem, r)
  /\ UNCHANGED <<sKind, sGuard, sCancels>>
  /\ UNCHANGED mvars

SemaphoreNext ==
  \/ SemAcquire
  \/ SemGuard
  \/ SemCancelAll
  \/ \E r \in SReq : SemGuardRejected(r)

\* ---------------------------------------------------------- specifications

vars == <<mtx, mKind, mGuard, mCalls, mCancels, mErr, mCb, mStale,
          sem, sKind, sGuard, sCancels>>

Init == MutexInit /\ SemaphoreInitDefault

Next == MutexNext \/ SemaphoreNext

Spec == Init /\ [][Next]_vars

\* The Mutex alone, beside an untouched Semaphore.
MutexSpecInit == MutexInit /\ SemaphoreInitDefault

MutexSpec == MutexSpecInit /\ [][MutexNext]_vars

\* The Mutex in runs where cancelAll() is never called, every holder of a
\* token from lock() invokes it in the end, and every continuation of guard()
\* (the resumption after `await this.lock()` and after `await cb()`) is run
\* by the event loop once it is ready.
MutexLiveNext ==
  \/ MutexLock
  \/ MutexGuard
  \/ \E r \in Req : MutexRelease(r)
  \/ \E r \in Req : MutexGuardCallback(r)
  \/ \E r \in Req : MutexGuardFinally(r)

MutexLiveFairness ==
  \A r \in Req :
    /\ WF_vars(MutexRelease(r))
    /\ WF_vars(MutexGuardCallback(r))
    /\ WF_vars(MutexGuardFinally(r))

MutexLiveSpec == MutexSpecInit /\ [][MutexLiveNext]_vars /\ MutexLiveFairness

\* The Semaphore alone, beside an untouched Mutex.
MutexIdle ==
  /\ mtx = Mutex_new(NoErr)
  /\ mKind = [r \in Req |-> "none"]
  /\ mGuard = [r \in Req |-> "none"]
  /\ mCalls = [r \in Req |-> 0]
  /\ mCancels = 0
  /\ mErr = NoErr
  /\ mCb = [r \in Req |-> "none"]
  /\ mStale = [r \in Req |-> FALSE]

SemaphoreSpecInit == MutexIdle /\ SemaphoreInit

SemaphoreSpec == SemaphoreSpecInit /\ [][SemaphoreNext]_vars

\* The Semaphore in runs where cancelAll() is never called and every
\* continuation of guard() is run by the event loop once it is ready.  (No
\* ticket is ever issued, so there is no releaser for a holder to invoke.)
SemaphoreLiveNext ==
  \/ SemAcquire
  \/ SemGuard
  \/ \E r \in SReq : SemGuardRejected(r)

SemaphoreLiveFairness ==
  \A r \in SReq : WF_vars(SemGuardRejected(r))

SemaphoreLiveSpec ==
  SemaphoreSpecInit /\ [][SemaphoreLiveNext]_vars /\ SemaphoreLiveFairness

\* ------------------------------------------------------------------ claims

\* Grants whose release token has not been invoked yet.
MutexOutstanding ==
  {r \in Req : mtx.promise[r] = "resolved" /\ ~mtx.released[r]}

SemOutstanding ==
  {r \in SReq : sem.promise[r] = "resolved" /\ ~sem.released[r]}

\* Number of acquire()/guard() calls made so far on the Semaphore.
SemCalls == Cardinality({r \in SReq : sKind[r] # "none"})

\* A sequence of request numbers is in the order of the calls.
InCallOrder(seq) ==
  \A i, j \in 1..Len(seq) : i < j => seq[i] < seq[j]

\* C1: Mutex mutual exclusion.  Under any interleaving of lock(), guard(),
\* release-token invocations and cancelAll(), at most one grant is
\* outstanding (its token delivered and not yet invoked).
C1_MutualExclusion == Cardinality(MutexOutstanding) <= 1

\* C2: a Semaphore of capacity N >= 1 admits exactly N holders.  With no
\* release and no cancelAll() so far, each of the first N acquire() calls is
\* granted, every later one is pending, and never more than N tickets are
\* outstanding.
C2_AdmitsExactlyN ==
  (sem.constructed /\ sem.maxConcurrent >= 1) =>
    /\ Cardinality(SemOutstanding) <= sem.maxConcurrent
    /\ (sCancels = 0 /\ sem.onRelease = 0) =>
         \A r \in SReq :
           sKind[r] # "none" =>
             IF r <= sem.maxConcurrent
               THEN sem.promise[r] = "resolved"
               ELSE sem.promise[r] = "pending"

\* C3: Mutex FIFO fairness.  Requests are granted in the order of their
\* lock() calls: the sequence of grants issued so far is in call order.
C3_MutexFifo == InCallOrder(mtx.grants)

\* C3's case: two waiters queued behind a holder were granted one after
\* the other, each by the release of the holder before it.
C3_Witness ==
  /\ mtx.grants = <<1, 2, 3>>
  /\ mCancels = 0
  /\ mtx.released[1] /\ mtx.released[2]

\* C4: Semaphore FIFO.  Requests that had to wait are granted in the order
\* of their acquire() calls.  (No run queues or grants a request, so this has
\* no case among the reachable states.)
C4_SemFifo == InCallOrder(sem.grants)

\* C5: Mutex release tokens are idempotent.  The second and every later
\* invocation of a token leaves isLocked, the queue, every promise and the
\* hook counts (onRelease among them) unchanged.
C5_MutexReleaseIdempotent ==
  [][\A r \in Req :
       (mCalls'[r] > mCalls[r] /\ mCalls[r] >= 1) => mtx' = mtx]_vars

\* C5's case: a token has been invoked a second time while the Mutex was
\* locked by someone else and a request was waiting.
C5_Witness ==
  \E r \in Req :
    /\ mCalls[r] = 2
    /\ mtx.queue # << >>
    /\ MutexOutstanding # {}

\* C6: Semaphore releasers are idempotent.  In the claim's scenario of three
\* acquire() calls on a capacity-1 Semaphore the first request is granted
\* and, however often its releaser is invoked (not at all, once, or more
\* often to no further effect), the third request stays pending and the
\* Semaphore stays locked.
C6_SemReleaseIdempotent ==
  ( /\ sem.constructed
    /\ sem.maxConcurrent = 1
    /\ sCancels = 0
    /\ \A r \in 1..3 : sKind[r] = "acquire" ) =>
    /\ sem.promise[1] = "resolved"
    /\ sem.promise[3] = "pending"
    /\ Semaphore_isLocked(sem)

\* C7 as claimed: isLocked is true exactly when some grant is outstanding or
\* some request is queued.
C7_IsLockedIffHeldOrQueued ==
  mtx.locked <=> (MutexOutstanding # {} \/ mtx.queue # << >>)

\* C7, amended: a queued request implies isLocked; isLocked implies that
\* some grant is outstanding; and isLocked is false while a grant is
\* outstanding only after a cancelAll().
C7_IsLockedAmended ==
  /\ mtx.queue # << >> => mtx.locked
  /\ mtx.locked => MutexOutstanding # {}
  /\ (MutexOutstanding # {} /\ ~mtx.locked) => mCancels > 0

\* C7's case: a cancelAll() has unlocked the Mutex under a holder, and the
\* Mutex has been locked again since.
C7_Witness ==
  /\ mCancels > 0
  /\ mtx.locked
  /\ Cardinality(MutexOutstanding) = 2

\* C8: in every reachable state of a Semaphore the available-slot counter
\* satisfies 0 <= available <= maxConcurrent.
C8_AllowedInRange ==
  sem.constructed => (0 <= sem.allowed /\ sem.allowed <= sem.maxConcurrent)

\* C8's case: acquire() and cancelAll() have both run on a Semaphore of
\* capacity two.
C8_Witness ==
  /\ sem.constructed
  /\ sem.maxConcurrent = 2
  /\ SemCalls >= 3
  /\ sCancels >= 1

\* C9: the number of outstanding tickets equals maxConcurrent minus the
\* available counter.
C9_OutstandingIsMaxMinusAllowed ==
  sem.constructed =>
    Cardinality(SemOutstanding) = sem.maxConcurrent - sem.allowed

\* C10: Semaphore.isLocked is true exactly when maxConcurrent tickets are
\* outstanding; it is true right after the acquire() call that takes the
\* last free slot.
C10_IsLockedWhenFull ==
  sem.constructed =>
    /\ Semaphore_isLocked(sem) <=>
         Cardinality(SemOutstanding) = sem.maxConcurrent
    /\ (sCancels = 0 /\ sem.onRelease = 0 /\ SemCalls >= sem.maxConcurrent)
         => Semaphore_isLocked(sem)

\* The requests in the Mutex's queue.
MutexQueued == {mtx.queue[i] : i \in 1..Len(mtx.queue)}

\* C11: right after any lock() call returns (lock() itself, or the one
\* guard() makes), isLocked is true, whether the request was granted at once
\* or queued; and no state between operations has a waiter queued while
\* isLocked is false.
C11_LockSetsIsLocked ==
  /\ [](mtx.queue # << >> => Mutex_isLocked(mtx))
  /\ [][mKind' # mKind => Mutex_isLocked(mtx')]_vars

\* C11's case: lock() has returned once with an immediate grant on a Mutex
\* that cancelAll() had unlocked under a holder, and once with a queued
\* request.
C11_Witness ==
  /\ mCancels > 0
  /\ mtx.grants = <<1, 2>>
  /\ mtx.queue = <<3>>
  /\ Mutex_isLocked(mtx)

\* C12: a cancelAll() call, in any state, rejects every request queued at
\* that moment and no other, leaves every granted request granted, empties
\* the queue and leaves isLocked false, also under an unreleased holder.
C12_CancelAllRejectsQueued ==
  [][mCancels' # mCancels =>
       /\ \A r \in Req :
            /\ r \in MutexQueued => mtx'.promise[r] = "rejected"
            /\ r \notin MutexQueued => mtx'.promise[r] = mtx.promise[r]
            /\ mtx.promise[r] = "resolved" => mtx'.promise[r] = "resolved"
       /\ mtx'.queue = << >>
       /\ ~Mutex_isLocked(mtx')
       /\ mtx'.released = mtx.released]_vars

\* C12's case: one cancelAll() has rejected two waiters queued behind a
\* holder that has not released, and the Mutex is unlocked.
C12_Witness ==
  /\ mCancels = 1
  /\ mtx.promise = [r \in Req |-> IF r = 1 THEN "resolved" ELSE "rejected"]
  /\ ~mtx.released[1]
  /\ mtx.queue = << >>
  /\ ~Mutex_isLocked(mtx)

\* C13: every waiter a cancelAll(err) call rejects receives err when one is
\* given, otherwise the errorCancelled option when one was configured,
\* otherwise the ErrCancelled singleton; all waiters rejected by one call
\* receive the same value, and no other request's rejection reason changes.
C13_CancelErrorPriority ==
  [][mCancels' # mCancels =>
       \A r \in Req :
         IF r \in MutexQueued
           THEN mtx'.reason[r] =
                  IF mErr' # NoErr THEN mErr'
                  ELSE IF mtx.errorCancelled # NoErr THEN mtx.errorCancelled
                  ELSE ErrCancelled
           ELSE mtx'.reason[r] = mtx.reason[r]]_vars

\* C13's case: a Mutex configured with errorCancelled has had two waiters
\* rejected by one cancelAll(err) call, both with err.
C13_Witness ==
  /\ mtx.errorCancelled = ErrOption
  /\ mCancels = 1
  /\ mErr = ErrArgument
  /\ \A r \in {2, 3} : mtx.promise[r] = "rejected" /\ mtx.reason[r] = ErrArgument

\* C13's other cases: a waiter rejected with the option, and one rejected
\* with the default, by a cancelAll() call without an argument.
C13_WitnessFallbacks ==
  /\ mErr = NoErr
  /\ \E r \in Req :
       /\ mtx.promise[r] = "rejected"
       /\ mtx.reason[r] = Coalesce(mtx.errorCancelled, ErrCancelled)

\* C15: each cancelAll() call invokes onCancel exactly once, and only after
\* the queue has been emptied and isLocked set to false: every onCancel call
\* so far found an unlocked Mutex with no waiters.  This holds also for a
\* call made when no request is queued.
C15_OnCancelOnceAfterReset ==
  /\ mtx.onCancel = mCancels
  /\ Len(mtx.onCancelSaw) = mCancels
  /\ \A i \in 1..Len(mtx.onCancelSaw) :
       mtx.onCancelSaw[i] = [isLocked |-> FALSE, queued |-> 0]

\* C15's case: two cancelAll() calls, one that rejected two waiters queued
\* behind a holder and one made when no request was queued.
C15_Witness ==
  /\ mCancels = 2
  /\ mtx.onCancel = 2
  /\ Cardinality({r \in Req : mtx.promise[r] = "rejected"}) = 2

\* The requests in the Semaphore's queue.
SemQueued == {sem.queue[i] : i \in 1..Len(sem.queue)}

\* C14: a Semaphore.cancelAll() call rejects every request queued at that
\* moment with the configured errorCancelled (ErrCancelled when none was
\* configured), leaves every granted request granted, empties the queue and
\* sets the available count back to maxConcurrent.  (No run queues a
\* request, so the rejection has no case among the reachable states.)
C14_SemCancelAllRejectsQueued ==
  [][sCancels' # sCancels =>
       /\ \A r \in SReq :
            /\ r \in SemQueued =>
                 /\ sem'.promise[r] = "rejected"
                 /\ sem'.reason[r] = sem.errorCancelled
            /\ sem.promise[r] = "resolved" => sem'.promise[r] = "resolved"
       /\ sem'.queue = << >>
       /\ sem'.allowed = sem.maxConcurrent]_vars

\* C16: every Semaphore.cancelAll() call invokes onCancel exactly once
\* before it returns: between operations onCancel has fired as often as
\* cancelAll() has been called.
C16_SemOnCancelOnce ==
  sem.constructed => sem.onCancel = sCancels

\* The requests granted so far.
MutexGranted == {mtx.grants[i] : i \in 1..Len(mtx.grants)}

\* C17: every lock() request has at most one outcome.  A request is granted
\* at most once; a granted request is resolved and stays resolved, also over
\* a later cancelAll(), which reaches only requests that are still pending
\* in the queue; a rejected request was never granted and carries a
\* cancellation error; and a settled promise never changes.
C17_OneOutcome ==
  /\ [](/\ \A i, j \in 1..Len(mtx.grants) : i # j => mtx.grants[i] # mtx.grants[j]
        /\ \A r \in Req :
             /\ r \in MutexQueued => (mtx.promise[r] = "pending" /\ r \notin MutexGranted)
             /\ r \in MutexGranted => mtx.promise[r] = "resolved"
             /\ mtx.promise[r] = "rejected" =>
                  /\ r \notin MutexGranted
                  /\ mtx.reason[r] \in {ErrArgument, ErrOption, ErrCancelled})
  /\ [][\A r \in Req :
          mtx.promise[r] \in {"resolved", "rejected"} =>
            (mtx'.promise[r] = mtx.promise[r] /\ mtx'.reason[r] = mtx.reason[r])]_vars

\* C17's case: cancelAll() has been called twice; a call made after request
\* 1 was granted, its token not invoked, rejected request 2 queued behind
\* it, and request 1 is still granted.
C17_Witness ==
  /\ mCancels = 2
  /\ mKind = [r \in Req |-> IF r = 3 THEN "none" ELSE "lock"]
  /\ mtx.promise[1] = "resolved" /\ mCalls[1] = 0
  /\ mtx.promise[2] = "rejected"

\* C18: a promise acquire() returned is rejected only by cancelAll() and
\* only with the cancellation error; an acquire() called while a slot is
\* free is granted at once and resolves with a ticket.
C18_SemRejectedOnlyByCancel ==
  sem.constructed =>
    \A r \in SReq :
      /\ sem.promise[r] = "rejected" =>
           (sCancels > 0 /\ sem.reason[r] = sem.errorCancelled)
      /\ (sKind[r] # "none" /\ r <= sem.maxConcurrent
            /\ sCancels = 0 /\ sem.onRelease = 0) =>
           sem.promise[r] = "resolved"

\* C19: guard(cb) invokes the granted token exactly once on every exit path
\* of cb (return, throw, rejected promise), not before cb has finished, and
\* guard ends as cb ended: resolved when cb returned, rejected with cb's
\* error when cb threw or its promise rejected.  A guard whose lock() was
\* cancelled never runs cb and has no token to invoke.
C19_GuardReleasesOnce ==
  \A r \in Req :
    mKind[r] = "guard" =>
      /\ mGuard[r] \in {"awaitLock", "awaitCb:value", "awaitCb:error"} =>
           (mCalls[r] = 0 /\ ~mtx.released[r])
      /\ mGuard[r] \in {"resolved", "rejected:callback"} =>
           (mCalls[r] = 1 /\ mtx.released[r])
      /\ mGuard[r] = "resolved" <=>
           (mCb[r] = "returns" /\ mtx.released[r])
      /\ mGuard[r] = "rejected:callback" <=>
           (mCb[r] = "throws" \/ (mCb[r] = "rejects" /\ mtx.released[r]))
      /\ mGuard[r] = "rejected:cancelled" =>
           (mCb[r] = "none" /\ mCalls[r] = 0 /\ mtx.promise[r] = "rejected")

\* C19's case: three guard() calls have finished, one whose cb returned, one
\* whose cb threw and one whose cb's promise rejected, each after exactly
\* one invocation of its token.
C19_Witness ==
  /\ \A r \in Req : mKind[r] = "guard" /\ mCalls[r] = 1
  /\ {mCb[r] : r \in Req} = {"returns", "throws", "rejects"}
  /\ \A r \in Req : mGuard[r] \in {"resolved", "rejected:callback"}
  /\ mtx.onRelease = 3

\* C20: Semaphore.guard(cb) runs cb with the count of the granted ticket,
\* invokes the ticket's releaser once and resolves with cb's value: a guard()
\* call made while a slot is free, with no cancelAll(), does not end
\* rejected by anything but cb's own failure.
C20_SemGuardRunsCallback ==
  sem.constructed =>
    \A r \in SReq :
      (sKind[r] = "guard" /\ sCancels = 0) =>
        sGuard[r] \in {"awaitAcquire", "awaitCb", "resolved", "rejected:callback"}

\* C21: guard(cb) on an unlocked Mutex with no other request and no
\* cancelAll(): from the moment guard() has returned its promise isLocked is
\* true and cb has not run; cb runs in a later continuation, with the Mutex
\* still locked; and once the promise has resolved with cb's value isLocked
\* is false.
C21_GuardLocksRunsUnlocks ==
  (mKind = [r \in Req |-> IF r = 1 THEN "guard" ELSE "none"] /\ mCancels = 0) =>
    /\ mGuard[1] = "awaitLock" =>
         (Mutex_isLocked(mtx) /\ mCb[1] = "none" /\ mtx.promise[1] = "resolved")
    /\ mGuard[1] \in {"awaitCb:value", "awaitCb:error"} => Mutex_isLocked(mtx)
    /\ mGuard[1] = "resolved" => (~Mutex_isLocked(mtx) /\ mCb[1] = "returns")
    /\ mGuard[1] # "rejected:cancelled"

\* C21's case: the only request was a guard() whose cb returned, and its
\* promise has resolved.
C21_Witness ==
  /\ mKind = [r \in Req |-> IF r = 1 THEN "guard" ELSE "none"]
  /\ mCancels = 0
  /\ mGuard[1] = "resolved"
  /\ mCb[1] = "returns"
  /\ ~Mutex_isLocked(mtx)

\* C22: constructing a Semaphore with maxConcurrent 0, a negative number or
\* a value that is not a number throws and yields no Semaphore.
C22_ConstructorRejects ==
  ( \/ sem.arg.type = "string"
    \/ sem.arg.type = "number" /\ sem.arg.halves <= 0 ) => ~sem.constructed

\* C23: every constructed Semaphore has an integer maxConcurrent >= 1: 1
\* when the argument is left out, the argument truncated toward zero when a
\* positive number is given.
C23_MaxConcurrentAtLeastOne ==
  sem.constructed =>
    /\ sem.maxConcurrent >= 1
    /\ sem.arg.type = "undefined" => sem.maxConcurrent = 1
    /\ (sem.arg.type = "number" /\ sem.arg.halves > 0) =>
         sem.maxConcurrent = Trunc(sem.arg.halves)

\* C24: onLock is invoked exactly once per grant: the number of onLock
\* invocations equals the number of grants delivered, and a lock() call
\* that only queues fires none.
C24_OnLockOncePerGrant ==
  mtx.onLock = Len(mtx.grants)

\* The Mutex tokens that have been invoked at least once.
MutexInvoked == {r \in Req : mCalls[r] >= 1}

C27_TicketCountsFreeSlots ==
  sem.constructed =>
    /\ sem.onRelease = 0 =>
         \A i \in 1..Len(sem.grants) :
           sem.ticket[sem.grants[i]] = sem.maxConcurrent - i
    /\ (sem.maxConcurrent = 1 /\ sKind[1] = "acquire") =>
         (sem.promise[1] = "resolved" /\ sem.ticket[1] = 0)

\* C28: after a cancelAll(), invoking a release token that was issued before
\* it is inert: the step leaves isLocked and the queue unchanged and grants
\* no waiter, also when lock() requests were made after the cancelAll().
C28_StaleTokenInert ==
  [][\A r \in Req :
       (mCalls'[r] > mCalls[r] /\ mStale[r]) =>
         /\ Mutex_isLocked(mtx') = Mutex_isLocked(mtx)
         /\ mtx'.queue = mtx.queue
         /\ mtx'.grants = mtx.grants]_vars

\* C29: in a run without cancelAll() at most one grant is outstanding at any
\* time, and a lock() made while a holder has not released stays pending
\* until that holder's token is invoked: a request is granted only when
\* every request made before it has been granted and released.
C29_ExclusionWithoutCancel ==
  mCancels = 0 =>
    /\ Cardinality(MutexOutstanding) <= 1
    /\ \A r \in Req :
         mtx.promise[r] = "resolved" =>
           \A q \in 1..(r - 1) : mtx.promise[q] = "resolved" /\ mtx.released[q]
    /\ \A r \in Req : mtx.promise[r] # "rejected"

\* C29's case: with no cancelAll(), the second request was granted by the
\* first holder's release, holds the Mutex, and a third request is waiting.
C29_Witness ==
  /\ mCancels = 0
  /\ mtx.grants = <<1, 2>>
  /\ mtx.released[1] /\ ~mtx.released[2]
  /\ mtx.queue = <<3>>
  /\ mtx.promise[3] = "pending"

\* C30: the first invocation of a release token, in any state: with a
\* non-empty queue exactly the head waiter is dequeued and granted within
\* the call and isLocked is true before and after it; with an empty queue
\* isLocked becomes false and nobody is granted.
C30_ReleaseHandsOff ==
  [][\A r \in Req :
       (mCalls[r] = 0 /\ mCalls'[r] = 1) =>
         IF mtx.queue # << >>
           THEN /\ mtx'.queue = Tail(mtx.queue)
                /\ mtx'.grants = Append(mtx.grants, Head(mtx.queue))
                /\ mtx'.promise =
                     [mtx.promise EXCEPT ![Head(mtx.queue)] = "resolved"]
                /\ Mutex_isLocked(mtx) /\ Mutex_isLocked(mtx')
           ELSE /\ ~Mutex_isLocked(mtx')
                /\ mtx'.queue = << >>
                /\ mtx'.grants = mtx.grants
                /\ mtx'.promise = mtx.promise]_vars

\* C30's case: with no cancelAll(), the first token's invocation handed the
\* Mutex to the waiting second request, and the second token's invocation,
\* with nobody waiting, unlocked it.
C30_Witness ==
  /\ mCancels = 0
  /\ mKind[3] = "none"
  /\ mtx.grants = <<1, 2>>
  /\ mCalls[1] = 1 /\ mCalls[2] = 1
  /\ ~Mutex_isLocked(mtx)

\* C31: Mutex liveness.  When cancelAll() is never called and every granted
\* holder eventually invokes its token, every lock() request, from lock() or
\* from guard(), is eventually granted.
C31_MutexLiveness ==
  \A r \in Req : (mtx.promise[r] = "pending") ~> (mtx.promise[r] = "resolved")

\* C31's case: a request from lock() and one from guard() both had to wait
\* and have both been granted.
C31_Witness ==
  /\ mKind = <<"lock", "guard", "lock">>
  /\ mtx.grants = <<1, 2, 3>>
  /\ mtx.queue = << >>
  /\ mGuard[2] = "resolved"
  /\ mtx.onLock = 4

\* C32: Semaphore liveness.  For every constructed Semaphore, when
\* cancelAll() is never called and every ticket holder eventually invokes
\* its releaser, every acquire() request is eventually granted.
C32_SemLiveness ==
  \A r \in SReq :
    (sem.constructed /\ sKind[r] # "none") ~> (sem.promise[r] = "resolved")

C34_LockWhileLockedOnlyAppends ==
  [][(mKind' # mKind /\ Mutex_isLocked(mtx)) =>
       /\ mtx'.queue = Append(mtx.queue, MutexNextReq)
       /\ mtx'.promise = [mtx.promise EXCEPT ![MutexNextReq] = "pending"]
       /\ mtx'.grants = mtx.grants
       /\ mtx'.onLock = mtx.onLock
       /\ mtx'.released = mtx.released
       /\ Mutex_isLocked(mtx')]_vars

\* C34's case: two lock() calls made while the first holder had the Mutex
\* are queued in call order, and onLock has fired for the first grant only.
C34_Witness ==
  /\ mKind = <<"lock", "lock", "lock">>
  /\ mtx.grants = <<1>>
  /\ mtx.queue = <<2, 3>>
  /\ mtx.onLock = 2
  /\ mtx.onRelease = 0

\* C35: with no cancelAll(), the callbacks of guard() calls never overlap:
\* when the callback of a guard() has started, every guard() made before it
\* has finished, its callback settled and its token invoked, and at most one
\* callback is awaited at any time.
C35_GuardCallbacksDoNotOverlap ==
  mCancels = 0 =>
    /\ \A r, q \in Req :
         (q < r /\ mKind[q] = "guard" /\ mKind[r] = "guard" /\ mCb[r] # "none") =>
           /\ mGuard[q] \in {"resolved", "rejected:callback"}
           /\ mtx.released[q]
    /\ Cardinality({r \in Req : mGuard[r] \in {"awaitCb:value", "awaitCb:error"}}) <= 1

\* C35's case: three concurrent guard() calls; the first two callbacks have
\* finished one after the other and the third is being awaited.
C35_Witness ==
  /\ mCancels = 0
  /\ mKind = <<"guard", "guard", "guard">>
  /\ mGuard = <<"resolved", "rejected:callback", "awaitCb:value">>
  /\ mCalls = <<1, 1, 0>>

\* C36: a guard(cb) request rejected by cancelAll() while it waits in the
\* queue never has cb invoked, has no token invoked on its behalf, and its
\* guard() promise rejects with the cancellation error and nothing else.
C36_GuardCancelledSkipsCallback ==
  \A r \in Req :
    (mKind[r] = "guard" /\ mtx.promise[r] = "rejected") =>
      /\ mCb[r] = "none"
      /\ mCalls[r] = 0
      /\ mGuard[r] \in {"awaitLock", "rejected:cancelled"}
      /\ mtx.reason[r] \in {ErrArgument, ErrOption, ErrCancelled}

\* C36's case: a guard() queued behind a holder was rejected by
\* cancelAll(err), and its promise has rejected.
C36_Witness ==
  \E r \in Req :
    /\ mKind[r] = "guard"
    /\ mGuard[r] = "rejected:cancelled"
    /\ mtx.reason[r] = ErrArgument
    /\ mtx.promise[1] = "resolved"

\* C37: cancelAll() is idempotent on the lock state: in every reachable
\* state, a second cancelAll() made right after a first one rejects no
\* request and leaves the queue empty and isLocked false; all it adds is one
\* more onCancel call.
C37_CancelAllIdempotent ==
  \A e1, e2 \in {NoErr, ErrArgument} :
    LET first  == Mutex_cancelAll(mtx, e1)
        second == Mutex_cancelAll(first, e2)
    IN /\ first.queue = << >> /\ ~Mutex_isLocked(first)
       /\ second = [first EXCEPT
                      !.onCancel = @ + 1,
                      !.onCancelSaw = Append(@, [isLocked |-> FALSE, queued |-> 0])]

\* C37's case: cancelAll() has been called twice on a Mutex with a holder
\* and two waiters; both waiters are rejected, with the error of the call
\* that found them queued, and the holder's grant stands.
C37_Witness ==
  /\ mCancels = 2
  /\ mtx.onCancel = 2
  /\ mtx.promise = <<"resolved", "rejected", "rejected">>
  /\ mtx.reason[2] = mtx.reason[3]
  /\ ~mtx.released[1]
  /\ mtx.queue = << >> /\ ~Mutex_isLocked(mtx)

\* C38: Semaphore round trip.  Once a ticket's releaser has been invoked (by
\* its holder or by a completed guard()) and no other ticket is outstanding,
\* the available count is back at maxConcurrent and isLocked is false.  (No
\* run issues a ticket, so this has no case among the reachable states.)
C38_SemRoundTrip ==
  (sem.constructed /\ sem.grants # << >> /\ SemOutstanding = {}) =>
    (sem.allowed = sem.maxConcurrent /\ ~Semaphore_isLocked(sem))

====
